---- MODULE Spec2Model ----
(***************************************************************************)
(* Adaptiveworkload.py: a Flask application that estimates the request     *)
(* arrival rate over a sliding window, picks one of three instance groups  *)
(* and starts/stops EC2 instances under a global cooldown.                 *)
(*                                                                         *)
(* Flask serves each request on its own thread, so handle_request and      *)
(* get_metrics run as concurrent processes over the module globals         *)
(* REQUEST_LOG and LAST_SCALING_TIME.  A step of the model is one access   *)
(* to a global or one call to the EC2 client.                              *)
(*                                                                         *)
(* Time is counted in clock ticks, Resolution ticks to the second, so that *)
(* sub-second gaps between requests (rates above 1 request/second per      *)
(* interval) exist.  A rate is the exact fraction <<numerator,denominator>>*)
(* in requests per second.                                                 *)
(***************************************************************************)
EXTENDS Integers, Sequences, FiniteSets, TLC

\* ---- configuration (src/Adaptiveworkload.py:10-14) ----
THRESHOLD_T1 == 5
THRESHOLD_T2 == 10
HYSTERESIS == 2
COOLDOWN_PERIOD == 10
REQUEST_LOG_WINDOW == 60

\* ---- bounds of the model ----
NumProcs == 2
Resolution == 4
MaxTicks == 1
MaxRequests == 2
SeqMaxTicks == MaxTicks + 1
SeqMaxRequests == MaxRequests + 1
ConvMaxTicks == MaxTicks
ConvMaxRequests == MaxRequests + 3
MaxRateNum == 100
MaxRateDen == 10

Procs == 1..NumProcs

\* How far datetime.now() may have moved on since it was last read: not at
\* all, one tick, one tick short of the cooldown, one tick short of the
\* window, or one tick beyond the window.
TickSteps ==
    {1, COOLDOWN_PERIOD * Resolution - 1, REQUEST_LOG_WINDOW * Resolution - 1,
     REQUEST_LOG_WINDOW * Resolution + 1}

Advances == {0} \cup TickSteps

\* INSTANCE_GROUPS, in the dict's iteration (insertion) order.
INSTANCE_GROUPS == <<"small", "medium", "large">>

Groups == {INSTANCE_GROUPS[i] : i \in 1..Len(INSTANCE_GROUPS)}

\* The instance states ec2.describe_instances reports.
InstanceStates == {"stopped", "pending", "running", "stopping"}

\* LAST_SCALING_TIME = None
None == -1

VARIABLES
    clock,              \* the value datetime.now() returned last, in ticks
    REQUEST_LOG,        \* the global list of timestamps
    LAST_SCALING_TIME,  \* the global cooldown timestamp, or None
    fleet,              \* the EC2 instances' state, per group
    pc,                 \* each thread's position
    stamp,              \* handle_request: the timestamp being appended
    now,                \* calculate_arrival_rate: local now
    pruned,             \* calculate_arrival_rate: the comprehension's list
    arrival_rate,       \* handle_request / get_metrics: the rate
    target_group,       \* handle_request: the chosen group
    group,              \* the loop index into INSTANCE_GROUPS
    current_state,      \* manage_instances: the described state
    active_groups,      \* get_metrics: the list being built
    outcome,            \* the response the handler is returning
    cyc,                \* the decision cycle a thread runs (0: none)
    entry,              \* history: fleet and cooldown when the cycle began
    calls,              \* history: start/stop calls EC2 accepted
    begun,              \* history: when each decision cycle began
    serial,             \* requests are served one at a time
    ticksLeft,          \* bound: clock advances left
    requestsLeft        \* bound: HTTP requests left

vars ==
    <<clock, REQUEST_LOG, LAST_SCALING_TIME, fleet, pc, stamp, now, pruned,
      arrival_rate, target_group, group, current_state, active_groups,
      outcome, cyc, entry, calls, begun, serial, ticksLeft, requestsLeft>>

timing == <<clock, ticksLeft>>
calc == <<stamp, now, pruned>>
limits == <<serial, requestsLeft>>

\* ---- rates: exact fractions of requests per second ----
ZeroRate == <<0, 1>>

RateLeq(r, k) == r[1] <= k * r[2]

RateEq(r, q) == r[1] * q[2] = q[1] * r[2]

\* ---- pure functions of the source ----

\* mutant: the age compared with < instead of <=
KeepEntryStrict(t, e) == (t - e) < REQUEST_LOG_WINDOW * Resolution

\* the comprehension's condition, line 85
KeepEntry(t, e) == (t - e) <= REQUEST_LOG_WINDOW * Resolution

\* the list comprehension, lines 83-86
Prune(log, t) == SelectSeq(log, LAMBDA e : KeepEntry(t, e))

\* mutant: only the empty list returns early
TooFewEmpty(log) == Len(log) < 1

\* len(REQUEST_LOG) < 2, line 88
TooFew(log) == Len(log) < 2

\* mutant: the guard admits a span of 0
SpanRateZeroSpan(log) ==
    LET time_span == log[Len(log)] - log[1]
    IN  IF time_span >= 0 THEN <<Len(log) * Resolution, time_span>> ELSE ZeroRate

\* mutant: the intervals, not the entries, are counted
SpanRateIntervals(log) ==
    LET time_span == log[Len(log)] - log[1]
    IN  IF time_span > 0 THEN <<(Len(log) - 1) * Resolution, time_span>> ELSE ZeroRate

\* lines 91-92, for a non-empty list
SpanRate(log) ==
    LET time_span == log[Len(log)] - log[1]
    IN  IF time_span > 0 THEN <<Len(log) * Resolution, time_span>> ELSE ZeroRate

\* mutant: the thresholds compared with < instead of <=
choose_target_group_strict(rate) ==
    IF rate[1] < (THRESHOLD_T1 - HYSTERESIS) * rate[2] THEN "small"
    ELSE IF rate[1] < (THRESHOLD_T2 - HYSTERESIS) * rate[2] THEN "medium"
    ELSE "large"

\* choose_target_group, lines 94-101
choose_target_group(rate) ==
    IF RateLeq(rate, THRESHOLD_T1 - HYSTERESIS) THEN "small"
    ELSE IF RateLeq(rate, THRESHOLD_T2 - HYSTERESIS) THEN "medium"
    ELSE "large"

\* the operation handle_request asks for, lines 113-116
Operation(g, target) == IF g = target THEN "start" ELSE "stop"

\* mutant: only a start of a running group is skipped
AlreadyDesiredStartOnly(operation, state) ==
    operation = "start" /\ state = "running"

\* "Skip if already in desired state", lines 53-54
AlreadyDesired(operation, state) ==
    \/ operation = "start" /\ state = "running"
    \/ operation = "stop" /\ state = "stopped"

\* mutant: the comparison turned round
CooldownActiveInverted(last, t) ==
    last # None /\ (t - last) > COOLDOWN_PERIOD * Resolution

\* mutant: timedelta(minutes=COOLDOWN_PERIOD)
CooldownActiveMinutes(last, t) ==
    last # None /\ (t - last) < COOLDOWN_PERIOD * 60 * Resolution

\* "Enforce cooldown", line 59
CooldownActive(last, t) ==
    last # None /\ (t - last) < COOLDOWN_PERIOD * Resolution

\* what EC2 does with an accepted start_instances / stop_instances
CallEffect(operation, state) ==
    IF operation = "start"
    THEN (IF state = "running" THEN "running" ELSE "pending")
    ELSE (IF state = "stopped" THEN "stopped" ELSE "stopping")

\* ---- initial states ----
NoEntry == [fleet0 |-> <<>>, last0 |-> None]

IdleLocals ==
    /\ pc = [p \in Procs |-> "idle"]
    /\ stamp = [p \in Procs |-> None]
    /\ now = [p \in Procs |-> None]
    /\ pruned = [p \in Procs |-> <<>>]
    /\ arrival_rate = [p \in Procs |-> ZeroRate]
    /\ target_group = [p \in Procs |-> "none"]
    /\ group = [p \in Procs |-> 0]
    /\ current_state = [p \in Procs |-> "none"]
    /\ active_groups = [p \in Procs |-> <<>>]
    /\ outcome = [p \in Procs |-> "none"]
    /\ cyc = [p \in Procs |-> 0]
    /\ entry = [p \in Procs |-> NoEntry]

ProcessStart ==
    /\ clock = 0
    /\ REQUEST_LOG = <<>>
    /\ LAST_SCALING_TIME = None
    /\ fleet \in [Groups -> {"stopped", "running"}]
    /\ calls = <<>>
    /\ begun = <<>>

Init ==
    /\ ProcessStart
    /\ IdleLocals
    /\ serial = FALSE
    /\ ticksLeft = MaxTicks
    /\ requestsLeft = MaxRequests

SeqInit ==
    /\ ProcessStart
    /\ IdleLocals
    /\ serial = TRUE
    /\ ticksLeft = SeqMaxTicks
    /\ requestsLeft = SeqMaxRequests

\* ---- the environment ----

\* datetime.now(): time has passed by d ticks since the last reading (time
\* passes between any two steps, and is seen where the clock is read)
ReadClock(d) ==
    /\ d > 0 => ticksLeft > 0
    /\ clock' = clock + d
    /\ ticksLeft' = IF d > 0 THEN ticksLeft - 1 ELSE ticksLeft

\* EC2 completes a start or a stop
Settle ==
    /\ \E g \in Groups :
        /\ fleet[g] \in {"pending", "stopping"}
        /\ fleet' = [fleet EXCEPT ![g] =
                        IF fleet[g] = "pending" THEN "running" ELSE "stopped"]
    /\ UNCHANGED <<timing, REQUEST_LOG, LAST_SCALING_TIME, pc, calc,
                   arrival_rate, target_group, group, current_state,
                   active_groups, outcome, cyc, entry, calls, begun, limits>>

\* a thread may take a request; a server that is not threaded has one thread
MayBegin(p) ==
    /\ pc[p] = "idle"
    /\ serial => p = 1

\* ---- how a handler ends ----

\* handle_request builds its response: the success response of lines
\* 118-122, or the error response of lines 124-126
EndCycle(p, status) ==
    /\ pc' = [pc EXCEPT ![p] = "h_done"]
    /\ outcome' = [outcome EXCEPT ![p] = status]
    /\ group' = [group EXCEPT ![p] = 0]
    /\ current_state' = [current_state EXCEPT ![p] = "none"]

\* an exception leaves the handler: handle_request catches it (line 124),
\* get_metrics does not, and Flask answers 500
Raise(p) ==
    IF cyc[p] > 0
    THEN EndCycle(p, "error")
    ELSE /\ pc' = [pc EXCEPT ![p] = "g_done"]
         /\ outcome' = [outcome EXCEPT ![p] = "crash"]
         /\ UNCHANGED <<group, current_state>>

\* manage_instances returns; the loop of lines 112-116 goes on
NextGroup(p) ==
    IF group[p] = Len(INSTANCE_GROUPS)
    THEN EndCycle(p, "success")
    ELSE /\ group' = [group EXCEPT ![p] = group[p] + 1]
         /\ current_state' = [current_state EXCEPT ![p] = "none"]
         /\ pc' = [pc EXCEPT ![p] = "m_describe"]
         /\ UNCHANGED outcome

\* calculate_arrival_rate returns rate to its caller: handle_request goes on
\* to choose_target_group (line 109), get_metrics answers (lines 141-144)
ReturnRate(p, rate) ==
    /\ arrival_rate' = [arrival_rate EXCEPT ![p] = rate]
    /\ IF cyc[p] > 0
       THEN /\ target_group' = [target_group EXCEPT ![p] = choose_target_group(rate)]
            /\ group' = [group EXCEPT ![p] = 1]
            /\ pc' = [pc EXCEPT ![p] = "m_describe"]
            /\ UNCHANGED outcome
       ELSE /\ outcome' = [outcome EXCEPT ![p] = "metrics"]
            /\ pc' = [pc EXCEPT ![p] = "g_done"]
            /\ UNCHANGED <<target_group, group>>

\* the response is sent and the handler's frame is dropped
Respond(p) ==
    /\ pc[p] \in {"h_done", "g_done"}
    /\ pc' = [pc EXCEPT ![p] = "idle"]
    /\ arrival_rate' = [arrival_rate EXCEPT ![p] = ZeroRate]
    /\ target_group' = [target_group EXCEPT ![p] = "none"]
    /\ active_groups' = [active_groups EXCEPT ![p] = <<>>]
    /\ outcome' = [outcome EXCEPT ![p] = "none"]
    /\ cyc' = [cyc EXCEPT ![p] = 0]
    /\ entry' = [entry EXCEPT ![p] = NoEntry]
    /\ UNCHANGED <<timing, REQUEST_LOG, LAST_SCALING_TIME, fleet, calc, group,
                   current_state, calls, begun, limits>>

\* ---- handle_request, lines 103-126 ----

\* the request arrives; datetime.now() of line 107 is evaluated
H_Begin(p) ==
    /\ MayBegin(p)
    /\ requestsLeft > 0
    /\ requestsLeft' = requestsLeft - 1
    /\ \E d \in Advances : ReadClock(d)
    /\ stamp' = [stamp EXCEPT ![p] = clock']
    /\ pc' = [pc EXCEPT ![p] = "h_append"]
    /\ cyc' = [cyc EXCEPT ![p] = Len(begun) + 1]
    /\ begun' = Append(begun, clock')
    /\ entry' = [entry EXCEPT ![p] =
                    [fleet0 |-> fleet, last0 |-> LAST_SCALING_TIME]]
    /\ UNCHANGED <<REQUEST_LOG, LAST_SCALING_TIME, fleet, now, pruned,
                   arrival_rate, target_group, group, current_state,
                   active_groups, outcome, calls, serial>>

\* REQUEST_LOG.append, line 107
H_Append(p) ==
    /\ pc[p] = "h_append"
    /\ REQUEST_LOG' = Append(REQUEST_LOG, stamp[p])
    /\ stamp' = [stamp EXCEPT ![p] = None]
    /\ pc' = [pc EXCEPT ![p] = "c_prune"]
    /\ UNCHANGED <<timing, LAST_SCALING_TIME, fleet, now, pruned, arrival_rate,
                   target_group, group, current_state, active_groups, outcome,
                   cyc, entry, calls, begun, limits>>

\* ---- calculate_arrival_rate, lines 77-92 ----

\* now = datetime.now() and the comprehension over REQUEST_LOG, lines 80-86
C_Prune(p) ==
    /\ pc[p] = "c_prune"
    /\ \E d \in Advances : ReadClock(d)
    /\ now' = [now EXCEPT ![p] = clock']
    /\ pruned' = [pruned EXCEPT ![p] = Prune(REQUEST_LOG, clock')]
    /\ pc' = [pc EXCEPT ![p] = "c_store"]
    /\ UNCHANGED <<REQUEST_LOG, LAST_SCALING_TIME, fleet, stamp, arrival_rate,
                   target_group, group, current_state, active_groups, outcome,
                   cyc, entry, calls, begun, limits>>

\* the assignment REQUEST_LOG = [...] of line 83 rebinds the global
C_Store(p) ==
    /\ pc[p] = "c_store"
    /\ REQUEST_LOG' = pruned[p]
    /\ pruned' = [pruned EXCEPT ![p] = <<>>]
    /\ now' = [now EXCEPT ![p] = None]
    /\ pc' = [pc EXCEPT ![p] = "c_len"]
    /\ UNCHANGED <<timing, LAST_SCALING_TIME, fleet, stamp, arrival_rate,
                   target_group, group, current_state, active_groups, outcome,
                   cyc, entry, calls, begun, limits>>

\* if len(REQUEST_LOG) < 2: return 0.0, lines 88-89
C_Len(p) ==
    /\ pc[p] = "c_len"
    /\ IF TooFew(REQUEST_LOG)
       THEN ReturnRate(p, ZeroRate)
       ELSE /\ pc' = [pc EXCEPT ![p] = "c_span"]
            /\ UNCHANGED <<arrival_rate, target_group, group, outcome>>
    /\ UNCHANGED <<timing, REQUEST_LOG, LAST_SCALING_TIME, fleet, calc,
                   current_state, active_groups, cyc, entry, calls, begun,
                   limits>>

\* lines 91-92 read the global again
C_Span(p) ==
    /\ pc[p] = "c_span"
    /\ Len(REQUEST_LOG) > 0
    /\ ReturnRate(p, SpanRate(REQUEST_LOG))
    /\ UNCHANGED <<timing, REQUEST_LOG, LAST_SCALING_TIME, fleet, calc,
                   current_state, active_groups, cyc, entry, calls, begun,
                   limits>>

\* REQUEST_LOG[-1] of an empty list: IndexError
C_SpanRaise(p) ==
    /\ pc[p] = "c_span"
    /\ Len(REQUEST_LOG) = 0
    /\ Raise(p)
    /\ UNCHANGED <<timing, REQUEST_LOG, LAST_SCALING_TIME, fleet, calc,
                   arrival_rate, target_group, active_groups, cyc, entry,
                   calls, begun, limits>>

\* ---- manage_instances, lines 43-75 ----

CurrentGroup(p) == INSTANCE_GROUPS[group[p]]

CurrentOperation(p) == Operation(CurrentGroup(p), target_group[p])

\* describe_instances and the state check, lines 49-56
M_Describe(p) ==
    /\ pc[p] = "m_describe"
    /\ IF AlreadyDesired(CurrentOperation(p), fleet[CurrentGroup(p)])
       THEN NextGroup(p)
       ELSE /\ current_state' = [current_state EXCEPT ![p] = fleet[CurrentGroup(p)]]
            /\ pc' = [pc EXCEPT ![p] = "m_cooldown"]
            /\ UNCHANGED <<group, outcome>>
    /\ UNCHANGED <<timing, REQUEST_LOG, LAST_SCALING_TIME, fleet, calc,
                   arrival_rate, target_group, active_groups, cyc, entry,
                   calls, begun, limits>>

\* describe_instances raises; lines 73-75 log and re-raise
M_DescribeRaise(p) ==
    /\ pc[p] = "m_describe"
    /\ Raise(p)
    /\ UNCHANGED <<timing, REQUEST_LOG, LAST_SCALING_TIME, fleet, calc,
                   arrival_rate, target_group, active_groups, cyc, entry,
                   calls, begun, limits>>

\* mutant: an active cooldown raises instead of returning
M_CooldownRaises(p) ==
    /\ pc[p] = "m_cooldown"
    /\ \E d \in Advances : ReadClock(d)
    /\ IF CooldownActive(LAST_SCALING_TIME, clock')
       THEN Raise(p)
       ELSE /\ pc' = [pc EXCEPT ![p] = "m_call"]
            /\ UNCHANGED <<group, current_state, outcome>>
    /\ UNCHANGED <<REQUEST_LOG, LAST_SCALING_TIME, fleet, calc, arrival_rate,
                   target_group, active_groups, cyc, entry, calls, begun,
                   limits>>

\* the cooldown check, lines 59-61
M_Cooldown(p) ==
    /\ pc[p] = "m_cooldown"
    /\ \E d \in Advances : ReadClock(d)
    /\ IF CooldownActive(LAST_SCALING_TIME, clock')
       THEN NextGroup(p)
       ELSE /\ pc' = [pc EXCEPT ![p] = "m_call"]
            /\ UNCHANGED <<group, current_state, outcome>>
    /\ UNCHANGED <<REQUEST_LOG, LAST_SCALING_TIME, fleet, calc, arrival_rate,
                   target_group, active_groups, cyc, entry, calls, begun,
                   limits>>

\* start_instances / stop_instances, lines 64-69
M_Call(p) ==
    /\ pc[p] = "m_call"
    /\ fleet' = [fleet EXCEPT ![CurrentGroup(p)] =
                    CallEffect(CurrentOperation(p), fleet[CurrentGroup(p)])]
    /\ calls' = Append(calls, [op |-> CurrentOperation(p),
                               group |-> CurrentGroup(p),
                               seen |-> current_state[p],
                               at |-> clock, cycle |-> cyc[p]])
    /\ pc' = [pc EXCEPT ![p] = "m_update"]
    /\ UNCHANGED <<timing, REQUEST_LOG, LAST_SCALING_TIME, calc, arrival_rate,
                   target_group, group, current_state, active_groups, outcome,
                   cyc, entry, begun, limits>>

\* mutant: the cooldown is stamped although the call raised
M_CallRaiseStamped(p) ==
    /\ pc[p] = "m_call"
    /\ Raise(p)
    /\ LAST_SCALING_TIME' = clock
    /\ UNCHANGED <<timing, REQUEST_LOG, fleet, calc, arrival_rate,
                   target_group, active_groups, cyc, entry, calls, begun,
                   limits>>

\* start_instances / stop_instances raises; lines 73-75 log and re-raise
M_CallRaise(p) ==
    /\ pc[p] = "m_call"
    /\ Raise(p)
    /\ UNCHANGED <<timing, REQUEST_LOG, LAST_SCALING_TIME, fleet, calc,
                   arrival_rate, target_group, active_groups, cyc, entry,
                   calls, begun, limits>>

\* LAST_SCALING_TIME = datetime.now(), line 71
M_Update(p) ==
    /\ pc[p] = "m_update"
    /\ \E d \in Advances : ReadClock(d)
    /\ LAST_SCALING_TIME' = clock'
    /\ NextGroup(p)
    /\ UNCHANGED <<REQUEST_LOG, fleet, calc, arrival_rate, target_group,
                   active_groups, cyc, entry, calls, begun, limits>>

\* ---- get_metrics, lines 128-144 ----

\* the request arrives; active_groups = [], line 131
G_Begin(p) ==
    /\ MayBegin(p)
    /\ requestsLeft > 0
    /\ requestsLeft' = requestsLeft - 1
    /\ pc' = [pc EXCEPT ![p] = "g_describe"]
    /\ group' = [group EXCEPT ![p] = 1]
    /\ UNCHANGED <<timing, REQUEST_LOG, LAST_SCALING_TIME, fleet, calc,
                   arrival_rate, target_group, current_state, active_groups,
                   outcome, cyc, entry, calls, begun, serial>>

\* after the loop of lines 132-139 comes calculate_arrival_rate, line 143
G_NextGroup(p) ==
    IF group[p] = Len(INSTANCE_GROUPS)
    THEN /\ group' = [group EXCEPT ![p] = 0]
         /\ pc' = [pc EXCEPT ![p] = "c_prune"]
    ELSE /\ group' = [group EXCEPT ![p] = group[p] + 1]
         /\ UNCHANGED pc

\* describe_instances and the running check, lines 134-137
G_Describe(p) ==
    /\ pc[p] = "g_describe"
    /\ active_groups' = [active_groups EXCEPT ![p] =
            IF fleet[CurrentGroup(p)] = "running"
            THEN Append(active_groups[p], CurrentGroup(p))
            ELSE active_groups[p]]
    /\ G_NextGroup(p)
    /\ UNCHANGED <<timing, REQUEST_LOG, LAST_SCALING_TIME, fleet, calc,
                   arrival_rate, target_group, current_state, outcome, cyc,
                   entry, calls, begun, limits>>

\* mutant: the except clause of lines 138-139 is missing
G_DescribeRaiseUncaught(p) ==
    /\ pc[p] = "g_describe"
    /\ Raise(p)
    /\ UNCHANGED <<timing, REQUEST_LOG, LAST_SCALING_TIME, fleet, calc,
                   arrival_rate, target_group, active_groups, cyc, entry,
                   calls, begun, limits>>

\* describe_instances raises; lines 138-139 log and go on
G_DescribeRaise(p) ==
    /\ pc[p] = "g_describe"
    /\ G_NextGroup(p)
    /\ UNCHANGED <<timing, REQUEST_LOG, LAST_SCALING_TIME, fleet, calc,
                   arrival_rate, target_group, current_state, active_groups,
                   outcome, cyc, entry, calls, begun, limits>>

\* ---- the specifications ----
Next ==
    \/ Settle
    \/ \E p \in Procs : H_Begin(p)
    \/ \E p \in Procs : H_Append(p)
    \/ \E p \in Procs : C_Prune(p)
    \/ \E p \in Procs : C_Store(p)
    \/ \E p \in Procs : C_Len(p)
    \/ \E p \in Procs : C_Span(p)
    \/ \E p \in Procs : C_SpanRaise(p)
    \/ \E p \in Procs : M_Describe(p)
    \/ \E p \in Procs : M_DescribeRaise(p)
    \/ \E p \in Procs : M_Cooldown(p)
    \/ \E p \in Procs : M_Call(p)
    \/ \E p \in Procs : M_CallRaise(p)
    \/ \E p \in Procs : M_Update(p)
    \/ \E p \in Procs : G_Begin(p)
    \/ \E p \in Procs : G_Describe(p)
    \/ \E p \in Procs : G_DescribeRaise(p)
    \/ \E p \in Procs : Respond(p)

\* threaded Flask: handlers interleave
Spec == Init /\ [][Next]_vars

\* One request at a time.  REQUEST_LOG cannot shrink between lines 88 and 91
\* then, so C_SpanRaise is left out: it is never enabled.
SeqNext ==
    \/ Settle
    \/ H_Begin(1)
    \/ H_Append(1)
    \/ C_Prune(1)
    \/ C_Store(1)
    \/ C_Len(1)
    \/ C_Span(1)
    \/ M_Describe(1)
    \/ M_DescribeRaise(1)
    \/ M_Cooldown(1)
    \/ M_Call(1)
    \/ M_CallRaise(1)
    \/ M_Update(1)
    \/ G_Begin(1)
    \/ G_Describe(1)
    \/ G_DescribeRaise(1)
    \/ Respond(1)

SeqSpec == SeqInit /\ [][SeqNext]_vars

\* ---- choose_target_group on its own ----

\* the rates n/d handed to choose_target_group
RateInputs == {<<n, d>> : n \in 0..MaxRateNum, d \in 1..MaxRateDen}

\* handle_request at line 109, holding any rate
SelInit ==
    /\ clock = 0
    /\ REQUEST_LOG = <<>>
    /\ LAST_SCALING_TIME = None
    /\ fleet = [g \in Groups |-> "stopped"]
    /\ calls = <<>>
    /\ begun = <<>>
    /\ serial = TRUE
    /\ ticksLeft = 0
    /\ requestsLeft = 0
    /\ pc = [p \in Procs |-> IF p = 1 THEN "h_choose" ELSE "idle"]
    /\ \E r \in RateInputs : arrival_rate = [p \in Procs |-> IF p = 1 THEN r ELSE ZeroRate]
    /\ stamp = [p \in Procs |-> None]
    /\ now = [p \in Procs |-> None]
    /\ pruned = [p \in Procs |-> <<>>]
    /\ target_group = [p \in Procs |-> "none"]
    /\ group = [p \in Procs |-> 0]
    /\ current_state = [p \in Procs |-> "none"]
    /\ active_groups = [p \in Procs |-> <<>>]
    /\ outcome = [p \in Procs |-> "none"]
    /\ cyc = [p \in Procs |-> 0]
    /\ entry = [p \in Procs |-> NoEntry]

\* target_group = choose_target_group(arrival_rate), line 109
H_Choose(p) ==
    /\ pc[p] = "h_choose"
    /\ target_group' = [target_group EXCEPT ![p] = choose_target_group(arrival_rate[p])]
    /\ pc' = [pc EXCEPT ![p] = "h_chosen"]
    /\ UNCHANGED <<timing, REQUEST_LOG, LAST_SCALING_TIME, fleet, calc,
                   arrival_rate, group, current_state, active_groups, outcome,
                   cyc, entry, calls, begun, limits>>

SelNext == H_Choose(1)

SelSpec == SelInit /\ [][SelNext]_vars

\* ---- switching with a fleet controller that acts at once ----

\* what a start_instances / stop_instances that has completed leaves
SettledEffect(operation) == IF operation = "start" THEN "running" ELSE "stopped"

RunningTiers == {g \in Groups : fleet[g] = "running"}

\* one tier is serving when the process starts
SwitchInit ==
    /\ SeqInit
    /\ Cardinality(RunningTiers) = 1

\* start_instances / stop_instances, lines 64-69, the instances having
\* changed state by the time the call returns
M_CallSettled(p) ==
    /\ pc[p] = "m_call"
    /\ fleet' = [fleet EXCEPT ![CurrentGroup(p)] = SettledEffect(CurrentOperation(p))]
    /\ calls' = Append(calls, [op |-> CurrentOperation(p),
                               group |-> CurrentGroup(p),
                               seen |-> current_state[p],
                               at |-> clock, cycle |-> cyc[p]])
    /\ pc' = [pc EXCEPT ![p] = "m_update"]
    /\ UNCHANGED <<timing, REQUEST_LOG, LAST_SCALING_TIME, calc, arrival_rate,
                   target_group, group, current_state, active_groups, outcome,
                   cyc, entry, begun, limits>>

\* decision cycles one at a time, no EC2 call raising
SwitchNext ==
    \/ H_Begin(1)
    \/ H_Append(1)
    \/ C_Prune(1)
    \/ C_Store(1)
    \/ C_Len(1)
    \/ C_Span(1)
    \/ M_Describe(1)
    \/ M_Cooldown(1)
    \/ M_CallSettled(1)
    \/ M_Update(1)
    \/ Respond(1)

SwitchSpec == SwitchInit /\ [][SwitchNext]_vars

\* ---- decision cycles that keep coming, more than the cooldown apart ----

\* how long after the previous request the next one arrives
ConvGaps ==
    {COOLDOWN_PERIOD * Resolution + 1, REQUEST_LOG_WINDOW * Resolution + 1}

Max(a, b) == IF a >= b THEN a ELSE b

ConvInit ==
    /\ ProcessStart
    /\ IdleLocals
    /\ serial = TRUE
    /\ ticksLeft = ConvMaxTicks
    /\ requestsLeft = ConvMaxRequests

\* the request arrives, the first at any time, a later one more than the
\* cooldown after the one before; datetime.now() of line 107 is evaluated
H_BeginLater(p) ==
    /\ MayBegin(p)
    /\ requestsLeft > 0
    /\ requestsLeft' = requestsLeft - 1
    /\ \E gap \in ConvGaps :
          clock' = IF begun = <<>> THEN clock
                   ELSE Max(clock, begun[Len(begun)] + gap)
    /\ stamp' = [stamp EXCEPT ![p] = clock']
    /\ pc' = [pc EXCEPT ![p] = "h_append"]
    /\ cyc' = [cyc EXCEPT ![p] = Len(begun) + 1]
    /\ begun' = Append(begun, clock')
    /\ entry' = [entry EXCEPT ![p] =
                    [fleet0 |-> fleet, last0 |-> LAST_SCALING_TIME]]
    /\ UNCHANGED <<REQUEST_LOG, LAST_SCALING_TIME, fleet, now, pruned,
                   arrival_rate, target_group, group, current_state,
                   active_groups, outcome, calls, serial, ticksLeft>>

ConvNext ==
    \/ H_BeginLater(1)
    \/ H_Append(1)
    \/ C_Prune(1)
    \/ C_Store(1)
    \/ C_Len(1)
    \/ C_Span(1)
    \/ M_Describe(1)
    \/ M_Cooldown(1)
    \/ M_CallSettled(1)
    \/ M_Update(1)
    \/ Respond(1)

\* the handler runs to its end, and the requests keep coming
LiveSpec == ConvInit /\ [][ConvNext]_vars /\ WF_vars(ConvNext)

\* ======================= the claims =======================

\* C7: target selection is a total function of the rate: rate <= T1 - H
\* gives the lowest tier, otherwise rate <= T2 - H the middle tier, otherwise
\* the highest; with T1=5, T2=10, H=2 the rates 0 and 3.0 give small, 3.1
\* and 8.0 medium, 8.1 and 100 large.
TargetSelectionRule ==
    \A p \in Procs : pc[p] = "h_chosen" =>
        LET n == arrival_rate[p][1]
            d == arrival_rate[p][2]
            t == target_group[p]
        IN  /\ t \in Groups
            /\ (t = "small") <=> (n <= (THRESHOLD_T1 - HYSTERESIS) * d)
            /\ (t = "medium") <=> /\ n > (THRESHOLD_T1 - HYSTERESIS) * d
                                  /\ n <= (THRESHOLD_T2 - HYSTERESIS) * d
            /\ (t = "large") <=> (n > (THRESHOLD_T2 - HYSTERESIS) * d)
            /\ (n = 0 \/ n = 3 * d) => t = "small"
            /\ (10 * n = 31 * d \/ n = 8 * d) => t = "medium"
            /\ (10 * n = 81 * d \/ n = 100 * d) => t = "large"

\* C7 witness: the rate 3.1 has been mapped to medium
TargetSelectionWitness ==
    /\ pc[1] = "h_chosen"
    /\ arrival_rate[1] = <<31, 10>>
    /\ target_group[1] = "medium"

\* the timestamps in a list, and how often one occurs
Range(log) == {log[i] : i \in 1..Len(log)}

Count(log, v) == Cardinality({i \in 1..Len(log) : log[i] = v})

Span(log) == log[Len(log)] - log[1]

\* C4 (as claimed): with n >= 2 retained entries whose oldest and newest
\* differ by span > 0 seconds, the rate returned is (n - 1) / span.
RateIsIntervalsOverSpan ==
    [][\A p \in Procs :
        (/\ pc[p] = "c_span"
         /\ pc'[p] # "c_span"
         /\ Len(REQUEST_LOG) >= 2
         /\ Span(REQUEST_LOG) > 0)
        => RateEq(arrival_rate'[p],
                  <<(Len(REQUEST_LOG) - 1) * Resolution, Span(REQUEST_LOG)>>)]_vars

\* C5: when line 88 finds 0 or 1 entries in the window, the rate returned is
\* exactly 0.0, to handle_request (which goes on to reconcile) and to
\* get_metrics (which answers).
RateZeroBelowTwo ==
    [][\A p \in Procs :
        (/\ pc[p] = "c_len"
         /\ pc'[p] # "c_len"
         /\ Len(REQUEST_LOG) <= 1)
        => /\ arrival_rate'[p] = <<0, 1>>
           /\ pc'[p] = IF cyc[p] > 0 THEN "m_describe" ELSE "g_done"]_vars

\* C5 witness: with one entry in the window, a decision cycle and a status
\* query have both been handed the rate 0.0
RateZeroWitness ==
    \E p, q \in Procs :
        /\ Len(REQUEST_LOG) = 1
        /\ pc[p] = "m_describe" /\ arrival_rate[p] = <<0, 1>>
        /\ pc[q] = "g_done" /\ outcome[q] = "metrics"
        /\ arrival_rate[q] = <<0, 1>>

Wanted(g, target) == IF g = target THEN "running" ELSE "stopped"

InReconcile == {"m_describe", "m_cooldown", "m_call", "m_update"}

\* C3: when reconcile observes a tier already in its desired state (target
\* running, non-target stopped) it issues no start/stop, leaves
\* LAST_SCALING_TIME alone and returns; calls and cooldown updates come only
\* from a reconcile that observed the tier out of its desired state.
IdempotentReconcile ==
    [][/\ \A p \in Procs :
            (/\ pc[p] = "m_describe"
             /\ (pc'[p] # pc[p] \/ group'[p] # group[p])
             /\ outcome'[p] # "error"
             /\ fleet[CurrentGroup(p)] = Wanted(CurrentGroup(p), target_group[p]))
            => /\ calls' = calls
               /\ LAST_SCALING_TIME' = LAST_SCALING_TIME
               /\ fleet' = fleet
               /\ pc'[p] \in {"m_describe", "h_done"}
       /\ (calls' # calls \/ LAST_SCALING_TIME' # LAST_SCALING_TIME) =>
            \E p \in Procs :
                /\ pc[p] \in {"m_call", "m_update"}
                /\ current_state[p] # Wanted(CurrentGroup(p), target_group[p])]_vars

\* C3 witness: a cycle has gone through all tiers while the cooldown was
\* active, found each in its desired state and changed nothing
IdempotentWitness ==
    \E p \in Procs :
        /\ pc[p] = "h_done" /\ outcome[p] = "success"
        /\ LAST_SCALING_TIME # None
        /\ clock - LAST_SCALING_TIME < COOLDOWN_PERIOD * Resolution
        /\ entry[p].last0 = LAST_SCALING_TIME
        /\ entry[p].fleet0 = fleet
        /\ \A g \in Groups : fleet[g] = Wanted(g, target_group[p])

\* C8: when describe, start or stop raises during a reconcile, the cycle
\* ends with the error response, LAST_SCALING_TIME is not touched (it
\* changes only at line 71, after a call that returned), and neither the
\* failure nor the error response undoes what the cycle did before.
FailureKeepsCooldown ==
    [][/\ \A p \in Procs :
            (M_DescribeRaise(p) \/ M_CallRaise(p)) =>
                pc'[p] = "h_done" /\ outcome'[p] = "error"
       /\ \A p \in Procs :
            (/\ pc[p] \in InReconcile
             /\ pc'[p] = "h_done"
             /\ outcome'[p] = "error")
            => /\ LAST_SCALING_TIME' = LAST_SCALING_TIME
               /\ calls' = calls
               /\ fleet' = fleet
       /\ \A p \in Procs :
            (pc[p] = "h_done" /\ outcome[p] = "error" /\ pc'[p] = "idle")
            => /\ LAST_SCALING_TIME' = LAST_SCALING_TIME
               /\ calls' = calls
               /\ fleet' = fleet
       /\ LAST_SCALING_TIME' # LAST_SCALING_TIME =>
            \E p \in Procs : pc[p] = "m_update" /\ outcome'[p] # "error"]_vars

\* C8 witness: a cycle that started a tier has then failed on a later tier:
\* it answers with the error, and the started tier stays started
FailureWitness ==
    \E p \in Procs :
        /\ pc[p] = "h_done" /\ outcome[p] = "error"
        /\ \E i \in 1..Len(calls) :
              /\ calls[i].cycle = cyc[p]
              /\ calls[i].op = "start"
              /\ fleet[calls[i].group] \in {"pending", "running"}
        /\ LAST_SCALING_TIME # None

\* C1 (as claimed): concurrent decision cycles that all find the same tier
\* stopped and have to start it make at most one start call for it within
\* any cooldown window.
NoDoubleFire ==
    \A i, j \in 1..Len(calls) :
        (/\ i < j
         /\ calls[i].op = "start" /\ calls[j].op = "start"
         /\ calls[i].group = calls[j].group
         /\ calls[i].seen = "stopped" /\ calls[j].seen = "stopped")
        => calls[j].at - calls[i].at >= COOLDOWN_PERIOD * Resolution

\* C10 (as claimed): no recorded request event is lost: an entry leaves
\* REQUEST_LOG only when a prune finds its age greater than the window.
NoEventLost ==
    [][\A v \in Range(REQUEST_LOG) :
        Count(REQUEST_LOG', v) < Count(REQUEST_LOG, v) =>
            \E p \in Procs :
                /\ pc[p] = "c_store" /\ pc'[p] = "c_len"
                /\ now[p] - v > REQUEST_LOG_WINDOW * Resolution]_vars

\* the calls decision cycle c made for group g
CallsOf(c, g) == {i \in 1..Len(calls) : calls[i].cycle = c /\ calls[i].group = g}

\* C2 (as claimed): two decision cycles, one after the other, that begin
\* less than the cooldown duration apart: each tier has received at most one
\* start/stop call from the two together.
CooldownBetweenCycleStarts ==
    (/\ pc[1] = "h_done"
     /\ cyc[1] >= 2
     /\ begun[cyc[1]] - begun[cyc[1] - 1] < COOLDOWN_PERIOD * Resolution)
    => \A g \in Groups :
          Cardinality(CallsOf(cyc[1] - 1, g) \cup CallsOf(cyc[1], g)) <= 1

\* C2 (amended): two decision cycles, one after the other, the second
\* completing less than the cooldown duration after the first began: each
\* tier has received at most one start/stop call from the two together,
\* whatever the rates and the fleet states.
CooldownAcrossCycles ==
    (/\ pc[1] = "h_done"
     /\ cyc[1] >= 2
     /\ clock - begun[cyc[1] - 1] < COOLDOWN_PERIOD * Resolution)
    => \A g \in Groups :
          Cardinality(CallsOf(cyc[1] - 1, g) \cup CallsOf(cyc[1], g)) <= 1

\* C2 witness: the first cycle made a call for a tier, and the second, less
\* than the cooldown later, completed while that tier was still not where
\* the second wanted it
CooldownAcrossWitness ==
    /\ pc[1] = "h_done" /\ outcome[1] = "success"
    /\ cyc[1] >= 2
    /\ clock - begun[cyc[1] - 1] < COOLDOWN_PERIOD * Resolution
    /\ \E g \in Groups :
          /\ CallsOf(cyc[1] - 1, g) # {}
          /\ fleet[g] # Wanted(g, target_group[1])
          /\ entry[1].fleet0[g] # Wanted(g, target_group[1])

\* the cycle began with its target and exactly one other tier running
BothRunningAtEntry(p) ==
    /\ entry[p].fleet0[target_group[p]] = "running"
    /\ \E g \in Groups \ {target_group[p]} :
          /\ entry[p].fleet0[g] = "running"
          /\ \A h \in Groups \ {target_group[p], g} : entry[p].fleet0[h] = "stopped"

\* C9 (as claimed): a decision cycle that begins with its target and one
\* other tier running and completes without error leaves the target running
\* and every other tier stopped (read generously: a tier EC2 is still
\* stopping counts as stopped).
SelfHealing ==
    (/\ pc[1] = "h_done" /\ outcome[1] = "success"
     /\ BothRunningAtEntry(1))
    => /\ fleet[target_group[1]] = "running"
       /\ \A g \in Groups \ {target_group[1]} : fleet[g] \in {"stopping", "stopped"}

\* no transition was performed within the cooldown before the cycle began
CooldownOverAtEntry(p) ==
    \/ entry[p].last0 = None
    \/ begun[cyc[p]] - entry[p].last0 >= COOLDOWN_PERIOD * Resolution

\* C9 (amended): a decision cycle that begins with its target and one other
\* tier running, at least the cooldown duration after the last performed
\* transition, and completes without error, has stopped the other tier: the
\* target is running and no other tier is (the other is stopping or stopped).
SelfHealingAfterCooldown ==
    (/\ pc[1] = "h_done" /\ outcome[1] = "success"
     /\ BothRunningAtEntry(1)
     /\ CooldownOverAtEntry(1))
    => /\ fleet[target_group[1]] = "running"
       /\ \A g \in Groups \ {target_group[1]} : fleet[g] \in {"stopping", "stopped"}

\* C9 witness: a cycle that began, the cooldown of an earlier transition
\* over, with two tiers running has made the stop call and completed
SelfHealingWitness ==
    /\ pc[1] = "h_done" /\ outcome[1] = "success"
    /\ BothRunningAtEntry(1)
    /\ entry[1].last0 # None
    /\ CooldownOverAtEntry(1)
    /\ \E i \in 1..Len(calls) : calls[i].cycle = cyc[1] /\ calls[i].op = "stop"

\* thread p takes a step
Steps(p) == <<pc'[p], group'[p]>> # <<pc[p], group[p]>>

\* C11: a fetch that raises in a status query does not fail the query: each
\* iteration of the loop, raising or not, goes on to the next tier (after
\* the last, to the rate), answers nothing yet, and adds the tier to the
\* active list only if the fetch reported it running; a raising fetch adds
\* nothing.  The query fails as a whole only in the rate computation.
StatusQueryIsolatesFailures ==
    [][/\ \A p \in Procs :
            (pc[p] = "g_describe" /\ Steps(p)) =>
                /\ pc'[p] = IF group[p] = Len(INSTANCE_GROUPS)
                            THEN "c_prune" ELSE "g_describe"
                /\ group'[p] = IF group[p] = Len(INSTANCE_GROUPS)
                               THEN 0 ELSE group[p] + 1
                /\ outcome'[p] = "none"
                /\ \/ active_groups'[p] = active_groups[p]
                   \/ /\ fleet[CurrentGroup(p)] = "running"
                      /\ active_groups'[p] =
                            Append(active_groups[p], CurrentGroup(p))
                /\ G_DescribeRaise(p) => active_groups'[p] = active_groups[p]
                /\ (fleet[CurrentGroup(p)] = "running"
                      /\ active_groups'[p] = active_groups[p])
                   => G_DescribeRaise(p)
       /\ \A p \in Procs :
            (outcome[p] # "crash" /\ outcome'[p] = "crash") => pc[p] = "c_span"]_vars

\* C11 witness: no start/stop was ever made, so the fleet is as it was; the
\* query answers with one running tier in its list and another running tier,
\* whose fetch raised, left out
StatusQueryWitness ==
    \E p \in Procs :
        /\ pc[p] = "g_done" /\ outcome[p] = "metrics"
        /\ calls = <<>>
        /\ \E g, h \in Groups :
              /\ fleet[g] = "running" /\ g \in Range(active_groups[p])
              /\ fleet[h] = "running" /\ h \notin Range(active_groups[p])

\* thread p takes a step of get_metrics
QueryStep(p) ==
    \/ pc[p] = "idle" /\ pc'[p] = "g_describe"
    \/ /\ cyc[p] = 0
       /\ pc[p] \in {"g_describe", "c_prune", "c_store", "c_len", "c_span", "g_done"}
       /\ Steps(p)

\* C12 (as claimed): no step of a status query makes a start/stop call, changes the
\* fleet or LAST_SCALING_TIME, or records a request event: REQUEST_LOG gets
\* no entry it did not have, and loses an entry only in the prune, and only
\* if the entry's age exceeds the window.
StatusQueryReadOnly ==
    [][\A p \in Procs : QueryStep(p) =>
        /\ calls' = calls
        /\ fleet' = fleet
        /\ LAST_SCALING_TIME' = LAST_SCALING_TIME
        /\ begun' = begun
        /\ Range(REQUEST_LOG') \subseteq Range(REQUEST_LOG)
        /\ \A v \in Range(REQUEST_LOG) :
              /\ Count(REQUEST_LOG', v) <= Count(REQUEST_LOG, v)
              /\ Count(REQUEST_LOG', v) < Count(REQUEST_LOG, v) =>
                    /\ pc[p] = "c_store"
                    /\ now[p] - v > REQUEST_LOG_WINDOW * Resolution]_vars

\* the decision cycle thread 1 has just completed is one of the first three,
\* and its event arrived within one second of the first
InBurst ==
    /\ pc[1] = "h_done"
    /\ cyc[1] \in 1..3
    /\ begun[cyc[1]] - begun[1] <= Resolution

\* cycle c made a stop call for group g
StopCalled(c, g) == \E i \in CallsOf(c, g) : calls[i].op = "stop"

CooldownSkipIsNoError ==
    [][\A p \in Procs :
        (/\ pc[p] = "m_cooldown"
         /\ Steps(p)
         /\ LAST_SCALING_TIME # None
         /\ clock' - LAST_SCALING_TIME < COOLDOWN_PERIOD * Resolution)
        => /\ current_state[p] # Wanted(CurrentGroup(p), target_group[p])
           /\ calls' = calls
           /\ fleet' = fleet
           /\ LAST_SCALING_TIME' = LAST_SCALING_TIME
           /\ outcome'[p] # "error"
           /\ IF group[p] = Len(INSTANCE_GROUPS)
              THEN pc'[p] = "h_done" /\ outcome'[p] = "success"
              ELSE /\ pc'[p] = "m_describe" /\ outcome'[p] = "none"
                   /\ group'[p] = group[p] + 1]_vars

\* C14 witness: a cycle that began within the cooldown of an earlier
\* transition, its target not running and another tier running, has made no
\* call, left LAST_SCALING_TIME as it was and answers success: the start and
\* the stop were both skipped
CooldownSkipWitness ==
    \E p \in Procs :
        /\ pc[p] = "h_done" /\ outcome[p] = "success"
        /\ entry[p].last0 # None
        /\ LAST_SCALING_TIME = entry[p].last0
        /\ clock - LAST_SCALING_TIME < COOLDOWN_PERIOD * Resolution
        /\ \A g \in Groups : CallsOf(cyc[p], g) = {}
        /\ entry[p].fleet0[target_group[p]] \in {"stopped", "pending"}
        /\ fleet[target_group[p]] # "running"
        /\ \E g \in Groups \ {target_group[p]} :
              entry[p].fleet0[g] = "running" /\ fleet[g] = "running"

\* C15 (as claimed): starting with exactly one tier running, decision cycles
\* run one at a time and every EC2 call succeeding and taking effect at once,
\* never are two or more tiers running (read generously: whenever a decision
\* cycle has completed; inside a cycle the target is started before a later
\* tier is stopped).
ExclusiveSwitching == pc[1] = "h_done" => Cardinality(RunningTiers) <= 1

\* C16 (as claimed): starting with exactly one tier running, decision cycles
\* run one at a time and every EC2 call succeeding and taking effect at once,
\* always at least one tier is running (read generously: whenever a decision
\* cycle has completed; inside a cycle an earlier tier is stopped before the
\* target is started).
AlwaysOneRunning == pc[1] = "h_done" => Cardinality(RunningTiers) >= 1

\* tier t is running and every other tier is stopped
SettledOn(t) == fleet[t] = "running" /\ \A g \in Groups \ {t} : fleet[g] = "stopped"

\* C17: decision cycles keep coming more than the cooldown apart, every EC2
\* call succeeds and has taken effect when it returns: if the target selected
\* is always the same tier, then eventually that tier is running and every
\* other stopped, for good; and no start/stop call is made in a cycle whose
\* target is running with every other tier stopped.
Convergence ==
    /\ \A t \in Groups :
          [](target_group[1] \in {"none", t}) => <>[]SettledOn(t)
    /\ [][calls' # calls => ~SettledOn(target_group[1])]_vars

\* C17 witness: three calls have brought the fleet to the target, and a
\* later cycle, begun on the settled fleet, has completed without a call
ConvergenceWitness ==
    /\ pc[1] = "h_done" /\ outcome[1] = "success"
    /\ Len(calls) = 3
    /\ SettledOn(target_group[1])
    /\ entry[1].fleet0 = fleet
    /\ \A g \in Groups : CallsOf(cyc[1], g) = {}

\* C18 (as claimed): REQUEST_LOG is in time order in every state, also with
\* concurrent decision cycles and status queries: its timestamps never
\* decrease from one entry to the next, and it changes only by an append at
\* the end or by the removal of entries from the front.
WindowTimeOrdered ==
    [][/\ \A i, j \in 1..Len(REQUEST_LOG') :
            i < j => REQUEST_LOG'[i] <= REQUEST_LOG'[j]
       /\ REQUEST_LOG' # REQUEST_LOG =>
            \/ /\ Len(REQUEST_LOG') = Len(REQUEST_LOG) + 1
               /\ SubSeq(REQUEST_LOG', 1, Len(REQUEST_LOG)) = REQUEST_LOG
            \/ \E k \in 1..Len(REQUEST_LOG) :
                  REQUEST_LOG' = SubSeq(REQUEST_LOG, k + 1, Len(REQUEST_LOG))]_vars

\* C19: when lines 91-92 find 2 or more entries whose first and last carry
\* the same timestamp, the rate returned is 0.0 and nothing is raised: a
\* decision cycle goes on and selects small, a status query answers.
ZeroSpanYieldsZero ==
    [][\A p \in Procs :
        (/\ pc[p] = "c_span"
         /\ Steps(p)
         /\ Len(REQUEST_LOG) >= 2
         /\ Span(REQUEST_LOG) = 0)
        => /\ arrival_rate'[p] = <<0, 1>>
           /\ outcome'[p] \notin {"error", "crash"}
           /\ IF cyc[p] > 0
              THEN /\ pc'[p] = "m_describe"
                   /\ target_group'[p] = "small"
                   /\ group'[p] = 1
              ELSE pc'[p] = "g_done" /\ outcome'[p] = "metrics"]_vars

\* C19 witness: a decision cycle holding two or more entries of one
\* timestamp has been handed the rate 0.0 and starts reconciling for small
ZeroSpanWitness ==
    \E p \in Procs :
        /\ pc[p] = "m_describe" /\ group[p] = 1
        /\ Len(REQUEST_LOG) >= 2
        /\ Span(REQUEST_LOG) = 0
        /\ arrival_rate[p] = <<0, 1>>
        /\ target_group[p] = "small"

\* the calls decision cycle c made, for any group
CallsIn(c) == {i \in 1..Len(calls) : calls[i].cycle = c}

\* any two start/stop calls are at least the cooldown apart: the later one
\* passed the check of line 59 that long after the earlier one did, and
\* that long after line 71 stamped the earlier one
CallsApart ==
    /\ \A i, j \in 1..Len(calls) :
          i < j => calls[j].at - calls[i].at >= COOLDOWN_PERIOD * Resolution
    /\ (pc[1] = "m_call" /\ calls # <<>>) =>
          /\ LAST_SCALING_TIME # None
          /\ LAST_SCALING_TIME >= calls[Len(calls)].at
          /\ clock - LAST_SCALING_TIME >= COOLDOWN_PERIOD * Resolution

\* C20 (as claimed): with requests served one at a time, any two start/stop
\* calls, for the same tier or not, are at least the cooldown apart, and a
\* decision cycle makes at most one call in all.
OneCallPerCycle ==
    /\ CallsApart
    /\ \A c \in 1..Len(begun) : Cardinality(CallsIn(c)) <= 1

\* C20 (amended): with requests served one at a time, any two start/stop
\* calls, for the same tier or not, are at least the cooldown apart, and a
\* decision cycle that completes in less than the cooldown makes at most
\* one call in all.
OneCallPerShortCycle ==
    /\ CallsApart
    /\ (pc[1] = "h_done" /\ clock - begun[cyc[1]] < COOLDOWN_PERIOD * Resolution)
          => Cardinality(CallsIn(cyc[1])) <= 1

\* C20 witness: a second call has been made, the cooldown after the first,
\* by a cycle that took less than the cooldown, made this one call and left
\* another tier out of place
OneCallWitness ==
    /\ pc[1] = "h_done" /\ outcome[1] = "success"
    /\ clock - begun[cyc[1]] < COOLDOWN_PERIOD * Resolution
    /\ Len(calls) >= 2
    /\ Cardinality(CallsIn(cyc[1])) = 1
    /\ \E g \in Groups :
          /\ CallsOf(cyc[1], g) = {}
          /\ entry[1].fleet0[g] # Wanted(g, target_group[1])
          /\ fleet[g] # Wanted(g, target_group[1])

====
